---- MODULE Spec2Model ----
(***************************************************************************)
(* WSL Orchestrator (src/app.py): the registry snapshot kept in the        *)
(* Treeview, the lifecycle handlers of the main (Tk) thread, the rename    *)
(* worker thread and its completion poll, and the external wsl tool as     *)
(* the environment the handlers drive.                                     *)
(*                                                                         *)
(* A text is a sequence of characters.  A character is a one-element       *)
(* string; a run of word characters that the program never looks inside    *)
(* ("Stopped", "Running", "NAME", ...) is written as one element.          *)
(***************************************************************************)
EXTENDS Naturals, Sequences, FiniteSets

\* ------------------------------------------------------------------ bounds
\* Renames that may be initiated in one run.
MaxRenames == 2
\* Delayed post-Start refreshes (self.after(1500, ...)) pending at once.
MaxTimers == 1

\* -------------------------------------------------------------- characters
SP == " "
TAB == "\t"
CR == "\r"
NUL == "NUL"
BOM == "BOM"
STAR == "*"
ERR == "Error:"

\* Python's str.strip() / regex \s class.
Whitespace == {SP, TAB, CR, "\n"}

\* What the regex class [\w.-] keeps.
WordChars ==
  {"A", "B", "C", "D", "2", "7", "Stopped", "Running", "NAME", "STATE", "VERSION"}
Digits == {"2", "7"}

IsSpace(c) == c \in Whitespace

RECURSIVE LStripSet(_, _)
\* str.lstrip(chars): drop every leading character that is in chars.
LStripSet(s, chars) ==
  IF s # <<>> /\ Head(s) \in chars THEN LStripSet(Tail(s), chars) ELSE s

RECURSIVE RStripSet(_, _)
RStripSet(s, chars) ==
  IF s # <<>> /\ s[Len(s)] \in chars
  THEN RStripSet(SubSeq(s, 1, Len(s) - 1), chars)
  ELSE s

\* str.strip()
Strip(s) == RStripSet(LStripSet(s, Whitespace), Whitespace)

NotNul(c) == c # NUL
IsWordChar(c) == c \in WordChars

\* ' ' in s
Contains(s, c) == \E i \in 1..Len(s) : s[i] = c

RECURSIVE RunEnd(_, _)
\* The first position at or after i that holds no whitespace (Len(s)+1 if none).
RunEnd(s, i) ==
  IF i <= Len(s) /\ IsSpace(s[i]) THEN RunEnd(s, i + 1) ELSE i

RECURSIVE SplitFrom(_, _, _, _)
SplitFrom(s, i, cur, acc) ==
  IF i > Len(s) THEN Append(acc, cur)
  ELSE IF IsSpace(s[i]) /\ i < Len(s) /\ IsSpace(s[i + 1])
       THEN SplitFrom(s, RunEnd(s, i), <<>>, Append(acc, cur))
       ELSE SplitFrom(s, i + 1, Append(cur, s[i]), acc)

\* re.split(r'\s{2,}', s): cut at every maximal run of two or more whitespace.
SplitGaps(s) == SplitFrom(s, 1, <<>>, <<>>)

\* ------------------------------------------------------------ run_command
\* What run_command returns when the tool is missing or exits non-zero.
ErrorOutput == << <<ERR>> >>

\* output.startswith("Error:")
StartsWithError(out) == out # <<>> /\ out[1] # <<>> /\ out[1][1] = ERR

\* `result and result.startswith("Error:")` in the rename worker.
Failed(result) == result # <<>> /\ StartsWithError(result)

\* -------------------------------------------------------- listing parser
Entry(n, s, v) == [name |-> n, state |-> s, version |-> v]

IsBlankLine(l) == Strip(l) = <<>>

RECURSIVE DropBlankLines(_)
DropBlankLines(ls) ==
  IF ls # <<>> /\ IsBlankLine(Head(ls)) THEN DropBlankLines(Tail(ls)) ELSE ls

\* output.strip().split('\n')[1:] : the lines after the first non-blank one.
BodyLines(out) ==
  LET ls == DropBlankLines(out) IN IF ls = <<>> THEN <<>> ELSE Tail(ls)

\* line.strip().lstrip(BOM)
CleanLine(line) == LStripSet(Strip(line), {BOM})

\* The default marker is cut off together with the blanks after it.
ProcessedLine(cleaned) ==
  IF Head(cleaned) = STAR THEN LStripSet(Tail(cleaned), Whitespace) ELSE cleaned

\* The entries one line adds to the tree: none, or one.
ParseLine(line) ==
  LET cleaned == CleanLine(line) IN
  IF cleaned = <<>> THEN <<>>
  ELSE LET parts == SplitGaps(ProcessedLine(cleaned)) IN
       IF Len(parts) = 3
       THEN << Entry(SelectSeq(parts[1], IsWordChar),
                     SelectSeq(Strip(parts[2]), NotNul),
                     SelectSeq(Strip(parts[3]), NotNul)) >>
       ELSE <<>>

RECURSIVE ParseLines(_)
ParseLines(ls) ==
  IF ls = <<>> THEN <<>> ELSE ParseLine(Head(ls)) \o ParseLines(Tail(ls))

\* The rows populate_wsl_list inserts for a listing that is no error.
ParseListing(out) == ParseLines(BodyLines(out))


\* ------------------------------------------------- the external wsl tool
NameA == <<"A">>
NameB == <<"B">>
\* An all-digit name.
Name7 == <<"7">>
\* A name with a tab in it, as it can be pasted into the rename dialog.
NameTab == <<"C", TAB, "D">>
NameSpaced == <<"C", SP, "D">>

\* The names the tool can hold, in the order it lists them.  The tool takes
\* no name with whitespace in it: an import under such a name fails.
ListingOrder == <<NameA, NameB, Name7>>
WorldNames == {ListingOrder[i] : i \in 1..Len(ListingOrder)}

IsRegistered(w, n) == n \in WorldNames /\ w[n] # "absent"

RegisteredSeq(w) == SelectSeq(ListingOrder, LAMBDA n : w[n] # "absent")

HeaderLine(noisy) ==
  (IF noisy THEN <<BOM>> ELSE <<>>)
    \o <<SP, SP, "NAME", SP, SP, SP, "STATE", SP, SP, SP, "VERSION", CR>>

\* One line of `wsl --list --verbose`: marker column, name, state, version.
InstanceLine(n, st, isDefault, noisy) ==
  (IF isDefault THEN <<STAR, SP>> ELSE <<SP, SP>>)
    \o n \o <<SP, SP, SP>> \o <<st>> \o (IF noisy THEN <<NUL>> ELSE <<>>)
    \o <<SP, SP>> \o <<"2">> \o (IF noisy THEN <<NUL>> ELSE <<>>) \o <<CR>>

\* stdout of `wsl --list --verbose`; a noisy listing carries a byte-order
\* mark, NUL padding and a blank last line.
ListOutput(w, noisy) ==
  LET reg == RegisteredSeq(w) IN
  <<HeaderLine(noisy)>>
    \o [i \in 1..Len(reg) |-> InstanceLine(reg[i], w[reg[i]], i = 1, noisy)]
    \o (IF noisy THEN << <<CR>> >> ELSE <<>>)

\* run_command: stdout, or the "Error: ..." text when the command failed.
run_command(ok, stdout) == IF ok THEN stdout ELSE ErrorOutput

\* A Python int with the decimal digits s.
PyInt(s) == <<"int">> \o s
IsStr(v) == v = <<>> \/ v[1] # "int"

\* subprocess takes only text arguments: with an int among them run_command
\* and Popen raise TypeError, which neither run_command nor a handler catches,
\* before any process is created.
RaisesTypeError(arg) == ~IsStr(arg)

\* wsl -d <name> --cd ~ : a registered instance starts running.
Launch(w, n) == IF IsRegistered(w, n) THEN [w EXCEPT ![n] = "Running"] ELSE w

\* wsl --terminate <name>
Terminate(w, n) == IF IsRegistered(w, n) THEN [w EXCEPT ![n] = "Stopped"] ELSE w

\* wsl --shutdown
Shutdown(w) == [n \in WorldNames |-> IF w[n] = "absent" THEN "absent" ELSE "Stopped"]

\* os.remove(path): the file goes, or the call raises (no such file, or the
\* file cannot be deleted) and the file system is as before.
OsRemove(fs, f, rmok) ==
  [called |-> TRUE, ok |-> (f \in fs /\ rmok),
   files |-> IF f \in fs /\ rmok THEN fs \ {f} ELSE fs]

\* ------------------------------------------------------------------ state
VARIABLES
  wsl,            \* the tool's instances: name -> "absent" | "Stopped" | "Running"
  files,          \* old names whose <old>_export.tar exists in the temp directory
  tree,           \* self.tree rows: the registry snapshot, in listing order
  selection,      \* self.tree.selection(): a row index, 0 for none
  select_event,   \* a <<TreeviewSelect>> event is queued for on_item_select
  buttons,        \* "normal" (TRUE) / "disabled" (FALSE) of the four gated buttons
  timers,         \* pending self.after(1500, self.populate_wsl_list) callbacks
  refreshing,     \* populate_wsl_list calls that have cleared the tree and not returned
  thread,         \* self.rename_thread: where the worker is, and its arguments
                  \* (kept until check_rename_status has seen it end)
  progress_win,   \* the modal progress window is up (and check_rename_status polls)
  rename_result,  \* self.rename_result: unset, or the text and the rename that wrote it
  renames,        \* renames initiated so far
  shown,          \* the message box the last step showed
  trace,          \* the calls the worker of the rename in progress made, with their outcome
  owed,           \* operations that invoked the tool and were not yet followed by a refresh
  listed          \* what the list command of the last refresh returned (ok, the instances)

vars == <<wsl, files, tree, selection, select_event, buttons, timers, refreshing, thread,
          progress_win, rename_result, renames, shown, trace, owed, listed>>

Stopped == <<"Stopped">>
AllDisabled == [terminal |-> FALSE, start |-> FALSE, rename |-> FALSE, stop |-> FALSE]
NoBox == [key |-> "none"]
Unset == [msg |-> "unset", by |-> 0]
NoThread == [pc |-> "none", old |-> <<>>, new |-> <<>>]
\* A worker whose end check_rename_status has seen: its arguments are gone.
Ended == [pc |-> "dead", old |-> <<>>, new |-> <<>>]
NoWorld == [n \in WorldNames |-> "absent"]
\* The list command has been started and has not returned.
Listing == [ok |-> FALSE, snap |-> NoWorld]

\* self.rename_thread.is_alive()
Alive == thread.pc \in {"export", "unregister", "import"}

\* A main thread that lets a callback start inside another one's refresh.
MainIdle_Reentrant == TRUE

\* The Tk event loop runs one callback at a time, and populate_wsl_list blocks
\* in run_command: no other callback starts while a refresh is under way.
MainIdle == refreshing = 0

\* The progress window holds the grab: the main window takes no input.
UserCanAct == MainIdle /\ ~progress_win

\* self.tree.item(row)['values'][k]: ttk hands back every value that reads as
\* an integer as an int, and every other value as the text inserted.
ItemValue(s) ==
  IF s # <<>> /\ \A i \in 1..Len(s) : s[i] \in Digits THEN PyInt(s) ELSE s

\* on_item_select: the button states for the current selection.
on_item_select(t, sel) ==
  IF sel # 0
  THEN IF ItemValue(t[sel].state) = Stopped
       THEN [terminal |-> TRUE, start |-> TRUE, rename |-> TRUE, stop |-> FALSE]
       ELSE [terminal |-> TRUE, start |-> FALSE, rename |-> FALSE, stop |-> TRUE]
  ELSE AllDisabled

\* A refresh that adds the new rows to the old ones.
DeleteChildren_Merge(t) == t

\* for i in self.tree.get_children(): self.tree.delete(i)
DeleteChildren(t) == <<>>

\* The first half of populate_wsl_list: the rows (and with them the selection)
\* are deleted, and the list command is started.  Whether Tk queues a
\* <<TreeviewSelect>> event for a selected row that is deleted depends on the
\* Tk build: both outcomes are kept.
PopulateBegin ==
  /\ tree' = DeleteChildren(tree)
  /\ selection' = 0
  /\ select_event' \in IF selection # 0 THEN {select_event, TRUE} ELSE {select_event}
  /\ refreshing' = refreshing + 1
  /\ listed' = Listing

Init ==
  /\ wsl \in {w \in [WorldNames -> {"absent", "Stopped", "Running"}] :
                /\ w[NameA] # "absent" /\ w[NameB] # "absent"
                /\ w[Name7] = "absent"}
  /\ files = {}
  /\ \E ok \in BOOLEAN, noisy \in BOOLEAN :
       LET out == run_command(ok, ListOutput(wsl, noisy)) IN
       /\ tree = IF StartsWithError(out) THEN <<>> ELSE ParseListing(out)
       /\ listed = [ok |-> ok, snap |-> IF ok THEN wsl ELSE NoWorld]
  /\ selection = 0
  /\ select_event = FALSE
  /\ buttons = AllDisabled
  /\ timers = 0
  /\ refreshing = 0
  /\ thread = NoThread
  /\ progress_win = FALSE
  /\ rename_result = Unset
  /\ renames = 0
  /\ shown = NoBox
  /\ trace = <<>>
  /\ owed = {}

\* ------------------------------------------------------- main-thread steps
\* <<TreeviewSelect>>: the user picks a row.
SelectItem ==
  /\ UserCanAct
  /\ \E i \in 1..Len(tree) :
       /\ selection' = i
       /\ buttons' = on_item_select(tree, i)
  /\ shown' = NoBox
  /\ UNCHANGED <<wsl, files, tree, select_event, timers, refreshing, thread,
                 progress_win, rename_result, renames, trace, owed, listed>>

\* The <<TreeviewSelect>> event queued for a deleted row reaches its binding.
TreeviewSelect ==
  /\ MainIdle
  /\ select_event
  /\ select_event' = FALSE
  /\ buttons' = on_item_select(tree, selection)
  /\ shown' = NoBox
  /\ UNCHANGED <<wsl, files, tree, selection, timers, refreshing, thread,
                 progress_win, rename_result, renames, trace, owed, listed>>

\* The refresh button: populate_wsl_list.
RefreshClick ==
  /\ UserCanAct
  /\ PopulateBegin
  /\ shown' = NoBox
  /\ UNCHANGED <<wsl, files, buttons, timers, thread, progress_win,
                 rename_result, renames, trace, owed>>

\* A refresh owed by Start, Terminate or ShutdownAll is paid by any refresh;
\* the one owed by Rename only by a refresh that lists after the worker ended.
OwedAfterRefresh(o) == IF Alive THEN o \cap {"rename"} ELSE {}

\* The second half of populate_wsl_list: the list command returns, the rows
\* are inserted and, unless the output was an error, the buttons are reset.
PopulateFinish ==
  /\ refreshing > 0
  /\ \E ok \in BOOLEAN, noisy \in BOOLEAN :
       LET out == run_command(ok, ListOutput(wsl, noisy)) IN
       IF StartsWithError(out)
       THEN /\ UNCHANGED <<tree, buttons>>
            /\ listed' = [ok |-> FALSE, snap |-> NoWorld]
       ELSE /\ tree' = tree \o ParseListing(out)
            /\ buttons' = on_item_select(tree', selection)
            /\ listed' = [ok |-> TRUE, snap |-> wsl]
  /\ refreshing' = refreshing - 1
  /\ owed' = OwedAfterRefresh(owed)
  /\ shown' = NoBox
  /\ UNCHANGED <<wsl, files, selection, select_event, timers, thread,
                 progress_win, rename_result, renames, trace>>

\* The callback of self.after(1500, self.populate_wsl_list).
TimerFire ==
  /\ MainIdle
  /\ timers > 0
  /\ timers' = timers - 1
  /\ PopulateBegin
  /\ shown' = NoBox
  /\ UNCHANGED <<wsl, files, buttons, thread, progress_win, rename_result,
                 renames, trace, owed>>

\* open_terminal: the shell is launched and no refresh follows.
open_terminal ==
  /\ UserCanAct
  /\ buttons.terminal
  /\ \E found \in BOOLEAN :
       LET distro_name == ItemValue(tree[selection].name) IN
       IF selection = 0 \/ RaisesTypeError(distro_name) THEN UNCHANGED <<wsl, shown>>
       ELSE IF found
            THEN wsl' = Launch(wsl, distro_name) /\ shown' = NoBox
            ELSE wsl' = wsl /\ shown' = [key |-> "error_wsl_not_found"]
  /\ UNCHANGED <<files, tree, selection, select_event, buttons, timers,
                 refreshing, thread, progress_win, rename_result, renames,
                 trace, owed, listed>>

\* A Start that forgets to schedule its refresh.
ScheduleRefresh_Forgot(t) == t

\* self.after(1500, self.populate_wsl_list)
ScheduleRefresh(t) == t + 1

\* start_distro
start_distro ==
  /\ UserCanAct
  /\ buttons.start
  /\ timers < MaxTimers
  /\ \E found \in BOOLEAN :
       LET distro_name == ItemValue(tree[selection].name) IN
       IF selection = 0 \/ RaisesTypeError(distro_name)
       THEN UNCHANGED <<wsl, timers, owed, shown>>
       ELSE IF found
            THEN /\ wsl' = Launch(wsl, distro_name)
                 /\ timers' = ScheduleRefresh(timers)
                 /\ owed' = owed \cup {"start"}
                 /\ shown' = NoBox
            ELSE /\ shown' = [key |-> "error_wsl_not_found"]
                 /\ UNCHANGED <<wsl, timers, owed>>
  /\ UNCHANGED <<files, tree, selection, select_event, buttons, refreshing,
                 thread, progress_win, rename_result, renames, trace, listed>>

\* terminate_distro
terminate_distro ==
  /\ UserCanAct
  /\ buttons.stop
  /\ \E confirm \in BOOLEAN, ok \in BOOLEAN :
       LET distro_name == ItemValue(tree[selection].name) IN
       IF selection = 0 \/ ~confirm \/ RaisesTypeError(distro_name)
       THEN UNCHANGED <<wsl, tree, selection, select_event, refreshing, owed, listed>>
       ELSE /\ wsl' = IF ok THEN Terminate(wsl, distro_name) ELSE wsl
            /\ owed' = owed \cup {"terminate"}
            /\ PopulateBegin
  /\ shown' = NoBox
  /\ UNCHANGED <<files, buttons, timers, thread, progress_win, rename_result,
                 renames, trace>>

\* shutdown_all
shutdown_all ==
  /\ UserCanAct
  /\ \E confirm \in BOOLEAN, ok \in BOOLEAN :
       IF ~confirm
       THEN UNCHANGED <<wsl, tree, selection, select_event, refreshing, owed, listed>>
       ELSE /\ wsl' = IF ok THEN Shutdown(wsl) ELSE wsl
            /\ owed' = owed \cup {"shutdown"}
            /\ PopulateBegin
  /\ shown' = NoBox
  /\ UNCHANGED <<files, buttons, timers, thread, progress_win, rename_result,
                 renames, trace>>

\* ------------------------------------------------------------------ rename
\* What can come back from the rename dialog; a cancelled dialog (None) is
\* treated by the code like the empty text.
NewNameInputs == {<<>>, <<SP>>, NameA, NameB, Name7, NameSpaced, NameTab}

\* [self.tree.item(i)['values'][0] for i in self.tree.get_children()]
TreeNames(t) == {ItemValue(t[i].name) : i \in 1..Len(t)}

\* The checks of rename_distro, in the code's order: the way the handler
\* leaves, or "confirm" when it goes on to ask for confirmation.
RenameVerdict(t, sel, n) ==
  IF sel = 0 THEN "no_selection"
  ELSE IF ItemValue(t[sel].state) # Stopped THEN "error_rename_stopped"
  ELSE IF n = <<>> \/ Strip(n) = <<>> \/ n = ItemValue(t[sel].name) THEN "no_input"
  ELSE IF Contains(n, SP) THEN "error_rename_no_space"
  ELSE IF n \in TreeNames(t) THEN "error_rename_duplicate"
  ELSE "confirm"

IsErrorBox(v) ==
  v \in {"error_rename_stopped", "error_rename_no_space", "error_rename_duplicate"}

\* rename_distro with the dialog's answers: the new name and the confirmation.
rename_distro(n, confirm) ==
  /\ UserCanAct
  /\ buttons.rename
  /\ LET v == RenameVerdict(tree, selection, n) IN
     IF v = "confirm" /\ confirm
     THEN /\ renames < MaxRenames
          /\ progress_win' = TRUE
          /\ thread' = [pc |-> "export", old |-> ItemValue(tree[selection].name),
                        new |-> n]
          /\ renames' = renames + 1
          /\ trace' = <<>>
          /\ owed' = owed \cup {"rename"}
          /\ shown' = NoBox
     ELSE /\ shown' = IF IsErrorBox(v) THEN [key |-> v] ELSE NoBox
          /\ UNCHANGED <<progress_win, thread, renames, trace, owed>>
  /\ UNCHANGED <<wsl, files, tree, selection, select_event, buttons, timers,
                 refreshing, rename_result, listed>>

Call(step, ok) == [step |-> step, ok |-> ok]
Result(msg) == [msg |-> msg, by |-> renames]

\* A worker that goes on to unregister whatever export returned.
AfterExport_NoReturn(result) == "unregister"

\* Where the worker goes after the export command.
AfterExport(result) == IF Failed(result) THEN "dead" ELSE "unregister"

\* _rename_worker, up to the export command and the test of its result.
rename_worker_export ==
  /\ thread.pc = "export"
  /\ \E ok \in BOOLEAN :
       LET done == ok /\ IsRegistered(wsl, thread.old)
           result == run_command(done, <<>>)
       IN IF RaisesTypeError(thread.old)
          THEN /\ thread' = [thread EXCEPT !.pc = "dead"]
               /\ UNCHANGED <<files, rename_result, trace>>
          ELSE /\ files' = IF done THEN files \cup {thread.old} ELSE files
               /\ rename_result' = IF Failed(result) THEN Result("Export failed")
                                                     ELSE rename_result
               /\ thread' = [thread EXCEPT !.pc = AfterExport(result)]
               /\ trace' = Append(trace, Call("export", done))
  /\ shown' = NoBox
  /\ UNCHANGED <<wsl, tree, selection, select_event, buttons, timers,
                 refreshing, progress_win, renames, owed, listed>>

\* A worker that leaves the archive alone when unregister has failed.
UnregisterFailedCleanup_Keep(fs, f, rmok) ==
  [called |-> FALSE, ok |-> FALSE, files |-> fs]

\* What the worker does with the archive once unregister has failed.
UnregisterFailedCleanup(fs, f, rmok) == OsRemove(fs, f, rmok)

\* _rename_worker: the unregister command, and on its failure the message,
\* the removal of the archive and the return.
rename_worker_unregister ==
  /\ thread.pc = "unregister"
  /\ \E ok \in BOOLEAN, rmok \in BOOLEAN :
       LET done == ok /\ IsRegistered(wsl, thread.old)
           result == run_command(done, <<>>)
           rm == UnregisterFailedCleanup(files, thread.old, rmok)
       IN IF Failed(result)
          THEN /\ rename_result' = Result("Unregister failed")
               /\ files' = rm.files
               /\ trace' = trace \o <<Call("unregister", FALSE)>>
                             \o (IF rm.called THEN <<Call("remove", rm.ok)>> ELSE <<>>)
               /\ thread' = [thread EXCEPT !.pc = "dead"]
               /\ wsl' = wsl
          ELSE /\ wsl' = [wsl EXCEPT ![thread.old] = "absent"]
               /\ trace' = Append(trace, Call("unregister", TRUE))
               /\ thread' = [thread EXCEPT !.pc = "import"]
               /\ UNCHANGED <<rename_result, files>>
  /\ shown' = NoBox
  /\ UNCHANGED <<tree, selection, select_event, buttons, timers, refreshing,
                 progress_win, renames, owed, listed>>

\* wsl --import <new> <dir> <archive> can succeed when the name is free and
\* the archive is there.
CanImport(w, fs, old, new) ==
  new \in WorldNames /\ ~IsRegistered(w, new) /\ old \in fs

\* _rename_worker from os.makedirs to its end: the import command, the removal
\* of the archive and the result message.  os.makedirs or os.remove raising
\* ends the thread where it is.
rename_worker_import ==
  /\ thread.pc = "import"
  /\ \E mkok \in BOOLEAN, ok \in BOOLEAN, rmok \in BOOLEAN :
       LET done == ok /\ CanImport(wsl, files, thread.old, thread.new)
           result == run_command(done, <<>>)
           rm == OsRemove(files, thread.old, rmok)
       IN IF ~mkok
          THEN /\ trace' = Append(trace, Call("makedirs", FALSE))
               /\ UNCHANGED <<wsl, files, rename_result>>
          ELSE IF Failed(result)
          THEN /\ rename_result' = Result("Import failed")
               /\ files' = rm.files
               /\ trace' = trace \o <<Call("import", FALSE), Call("remove", rm.ok)>>
               /\ wsl' = wsl
          ELSE /\ wsl' = [wsl EXCEPT ![thread.new] = "Stopped"]
               /\ files' = rm.files
               /\ trace' = trace \o <<Call("import", TRUE), Call("remove", rm.ok)>>
               /\ rename_result' = IF rm.ok THEN Result("rename_success_message")
                                            ELSE rename_result
  /\ thread' = [thread EXCEPT !.pc = "dead"]
  /\ shown' = NoBox
  /\ UNCHANGED <<tree, selection, select_event, buttons, timers, refreshing,
                 progress_win, renames, owed, listed>>

\* "failed" in self.rename_result.lower()
IsFailureText(msg) == msg \in {"Export failed", "Unregister failed", "Import failed"}

\* check_rename_status once the thread is no longer alive (while it is alive
\* the callback only re-arms itself): the progress window goes, the result
\* attribute, if there is one, is shown, and the list is refreshed.
check_rename_status ==
  /\ MainIdle
  /\ progress_win
  /\ ~Alive
  /\ progress_win' = FALSE
  /\ shown' = IF rename_result # Unset
              THEN [key |-> IF IsFailureText(rename_result.msg) THEN "showerror"
                                                                  ELSE "showinfo",
                    msg |-> rename_result.msg, by |-> rename_result.by]
              ELSE NoBox
  /\ thread' = Ended
  /\ trace' = <<>>
  /\ PopulateBegin
  /\ UNCHANGED <<wsl, files, buttons, timers, rename_result, renames, owed>>

Next ==
  \/ SelectItem
  \/ TreeviewSelect
  \/ RefreshClick
  \/ PopulateFinish
  \/ TimerFire
  \/ open_terminal
  \/ start_distro
  \/ terminate_distro
  \/ shutdown_all
  \/ \E n \in NewNameInputs, confirm \in BOOLEAN : rename_distro(n, confirm)
  \/ rename_worker_export
  \/ rename_worker_unregister
  \/ rename_worker_import
  \/ check_rename_status

Spec == Init /\ [][Next]_vars

\* The Tk event loop runs every due callback, the operating system runs the
\* worker thread, and every external command returns.
FairSpec ==
  /\ Spec
  /\ WF_vars(PopulateFinish)
  /\ WF_vars(TreeviewSelect)
  /\ WF_vars(TimerFire)
  /\ WF_vars(rename_worker_export)
  /\ WF_vars(rename_worker_unregister)
  /\ WF_vars(rename_worker_import)
  /\ WF_vars(check_rename_status)

\* ------------------------------------------------------------------ claims
ToolCalls == SelectSeq(trace, LAMBDA c : c.step \in {"export", "unregister", "import"})
StepOrder == <<"export", "unregister", "import">>

\* C1: the worker's tool calls are export, unregister, import in that order,
\* each made only after every earlier one succeeded; after a failed export
\* the worker makes no further call at all: no unregister, no import and no
\* removal of the archive.
C1_StepOrder ==
  /\ Len(ToolCalls) <= 3
  /\ \A i \in 1..Len(ToolCalls) :
       /\ ToolCalls[i].step = StepOrder[i]
       /\ i > 1 => ToolCalls[i - 1].ok
  /\ (trace # <<>> /\ trace[1] = Call("export", FALSE)) => Len(trace) = 1

C1_Witness == thread.pc = "dead" /\ trace = <<Call("export", FALSE)>>

UnregisterFailed ==
  /\ thread.pc = "dead"
  /\ Len(trace) >= 2
  /\ trace[1] = Call("export", TRUE)
  /\ trace[2] = Call("unregister", FALSE)

Refusable(n) ==
  /\ selection # 0
  /\ \/ tree[selection].state # Stopped
     \/ n = <<>>
     \/ n = tree[selection].name
     \/ \E i \in 1..Len(tree) : n = tree[i].name

\* C3: a rename_distro call with a refusable input starts no worker, shows no
\* progress window and leaves the tool's instances, the archives, the
\* registry snapshot and the refreshes owed as they were.
C3_RenameRefused ==
  [][\/ UNCHANGED <<thread, progress_win, renames, wsl, files, tree, owed>>
     \/ \A n \in NewNameInputs, confirm \in BOOLEAN :
          ~(Refusable(n) /\ rename_distro(n, confirm))]_vars

HasWhitespace(n) == \E i \in 1..Len(n) : IsSpace(n[i])

\* C4: a rename_distro call whose new name holds a whitespace character, at
\* any position, starts no worker.
C4_WhitespaceRefused ==
  [][\/ UNCHANGED <<thread, progress_win, renames>>
     \/ \A n \in NewNameInputs, confirm \in BOOLEAN :
          ~(selection # 0 /\ HasWhitespace(n) /\ rename_distro(n, confirm))]_vars

\* The rows a listing of the instances w stands for: one per instance, in
\* listing order, the name without the characters outside [\w.-].
ExpectedEntries(w) ==
  LET reg == RegisteredSeq(w) IN
  [i \in 1..Len(reg) |-> Entry(SelectSeq(reg[i], IsWordChar), <<w[reg[i]]>>, <<"2">>)]

\* C5: once a refresh has returned, the snapshot is empty if its list command
\* failed, and otherwise holds exactly the listed instances in listing order;
\* nothing of the earlier snapshot is kept.
C5_ReplaceNotMerge ==
  refreshing = 0 =>
    tree = IF listed.ok THEN ExpectedEntries(listed.snap) ELSE <<>>

\* A failed refresh after a snapshot in which a row had been selected.
C5_Witness ==
  /\ refreshing = 0
  /\ ~listed.ok
  /\ tree = <<>>
  /\ buttons.terminal

C7_ResultIsOwn ==
  shown.key \in {"showerror", "showinfo"} => shown.by = renames

\* C8: at most one refresh is under way at any time, and the snapshot changes
\* only in a step of a refresh, never in a step of the worker thread.
C8_RefreshSerial ==
  /\ [](refreshing <= 1)
  /\ [][tree' # tree => (refreshing' # refreshing /\ thread'.pc = thread.pc)]_vars

\* The delayed refresh after Start has cleared the snapshot while the worker
\* thread runs and the completion poll waits.
C8_Witness == refreshing = 1 /\ Alive /\ progress_win /\ tree = <<>>

\* C9: between handlers, with no selection event waiting, the buttons are a
\* function of the selection: all
\* disabled without one; with one, open-shell enabled, start and rename
\* enabled exactly for Stopped, stop exactly for anything else.
C9_GateBySelection ==
  (refreshing = 0 /\ ~select_event) =>
    buttons = IF selection = 0 THEN AllDisabled
              ELSE [terminal |-> TRUE,
                    start |-> tree[selection].state = Stopped,
                    rename |-> tree[selection].state = Stopped,
                    stop |-> tree[selection].state # Stopped]

\* C10: once export has succeeded, the instance is registered under the old
\* name, or its archive exists, or it is registered under the new name.
C10_NoDataLoss ==
  (trace # <<>> /\ trace[1] = Call("export", TRUE)) =>
    \/ IsRegistered(wsl, thread.old)
    \/ thread.old \in files
    \/ IsRegistered(wsl, thread.new)
====
